---- MODULE Spec2Model ----
(***************************************************************************)
(* Model of the text-detection dataset viewer:                             *)
(*   datasets/MSRA_TD500.py            the MSRA-TD500 reader               *)
(*   viewer/viewer_modules/viewer_dataset.py   ViewerDataset and Subset    *)
(*   viewer/viewer_modules/viewer_window.py    ViewerWindow, ViewerTable   *)
(* Spec explores navigation over every dataset of up to MaxSamples samples *)
(* per subset; SpecOpen explores opening every folder of up to MaxStem     *)
(* file names per directory; SpecIndex adds set_index to the navigation;   *)
(* SpecGeom builds one annotation from one line; SpecRead reads one        *)
(* directory repeatedly; SpecGui runs the slots of the viewer window, each *)
(* as one step; SpecCells runs them one table call at a time.              *)
(* Python lists are 0-based, TLA+ sequences 1-based: the sample at Python  *)
(* index i of a list s is s[i + 1].                                        *)
(***************************************************************************)
EXTENDS Integers, Sequences, FiniteSets, TLC

VARIABLES
    fs,              \* the dataset folder on disk: directory -> listing
    dataset_subsets, \* BaseTextDetectionDataset._subsets: name -> samples
    pc,              \* "start", "dataset", "viewer" or "failed"
    subsets,         \* key order of the ViewerDataset._subsets dictionary
    current_idx,     \* Subset._current_idx of each ViewerDataset subset
    current_subset,  \* ViewerDataset._current_subset
    err,             \* exception raised by the last call, "none" if none
    ret,             \* value returned by the last call, <<>> if none
    lastOp,          \* name of the last call
    lastArg,         \* argument of the last call, "" if none
    runOp,           \* operation repeated by the calls just made
    runStart,        \* cursor before the first call of that run
    runCount,        \* number of calls in that run
    table,           \* ViewerWindow.annots_table: rows of six cell texts
    currentRow,      \* annots_table.currentRow(), -1 if there is none
    row_adding,      \* ViewerTable.row_adding
    line_str,        \* the annotation line given to MSRA_TD500_annotation
    corners,         \* the corners returned by rotate_rectangle
    built,           \* the annotation built from line_str, <<>> if none
    reads,           \* results of the read_set calls made on one directory
    edits,           \* number of cell edits the user has made
    todo,            \* table calls the running slot has still to make
    step,            \* position of the GUI thread, "idle" in the event loop
    replacements,    \* annotation replacements made for the last user event
    reloads          \* load_sample calls made for the last user event

vars == <<fs, dataset_subsets, pc, subsets, current_idx, current_subset,
          err, ret, lastOp, lastArg, runOp, runStart, runCount,
          table, currentRow, row_adding, line_str, corners, built, reads,
          edits, todo, step, replacements,
          reloads>>

viewerVars == <<subsets, current_idx, current_subset>>
runVars == <<runOp, runStart, runCount>>
guiVars == <<table, currentRow, row_adding>>
geomVars == <<line_str, corners, built>>
cellVars == <<todo, step, replacements, reloads>>
otherVars == <<guiVars, geomVars, reads, edits, cellVars>>

\* the window before a dataset is loaded, no line parsed, no directory read
OtherInit ==
    /\ table = <<>>
    /\ currentRow = -1
    /\ row_adding = FALSE
    /\ line_str = <<>>
    /\ corners = <<>>
    /\ built = <<>>
    /\ reads = <<>>
    /\ edits = 0
    /\ todo = <<>>
    /\ step = "idle"
    /\ replacements = 0
    /\ reloads = 0

(***************************************************************************)
(* Bounds.                                                                 *)
(***************************************************************************)
MaxSamples == 3
MaxStem == 2

Range(s) == {s[i] : i \in 1..Len(s)}

(***************************************************************************)
(* The dataset: MSRA_TD500_dataset.__init__ fills the keys 'train' and     *)
(* 'test', in this order; get_subsets_names of the base class lists the    *)
(* keys of that dictionary.                                                *)
(***************************************************************************)
get_subsets_names == <<"train", "test">>

DictKeys == Range(get_subsets_names)

\* names a caller may pass to set_current_subset
RequestNames == DictKeys \cup {"validation"}

NoFs == [d \in DictKeys |-> [present |-> FALSE, gts |-> {}, jpgs |-> {},
                              content |-> <<>>]]

MakeSamples(name, n) == [k \in 1..n |-> [img |-> <<name, k>>, annots |-> <<>>]]

(***************************************************************************)
(* datasets/MSRA_TD500.py.  A token of an annotation line is a record:     *)
(* kind "int" is a decimal integer literal of value v, kind "float" a      *)
(* literal with a fraction that int() rejects and float() accepts, kind    *)
(* "word" a token neither accepts.  The angle a token denotes is v         *)
(* quarter turns, for which the rotation is exact in the integers.         *)
(***************************************************************************)
I(n) == [kind |-> "int", v |-> n]
F(n) == [kind |-> "float", v |-> n]
W == [kind |-> "word", v |-> 0]

\* int(tok) raises ValueError unless tok is an integer literal
IntOk(tok) == tok.kind = "int"

\* float(tok) raises ValueError unless tok is a numeric literal
FloatOk(tok) == tok.kind \in {"int", "float"}

\* annotation lines found in the .gt files
LineGood == <<I(1), I(0), I(10), I(20), I(30), I(40), F(0)>>
LineTurned == <<I(2), I(1), I(0), I(0), I(10), I(20), F(1)>>
LineShort == <<I(3), I(0), I(10), I(20), I(30), I(40)>>
LineBadField == <<I(4), I(0), I(10), I(20), W, I(40), F(0)>>

\* contents of a .gt file
FileContents ==
    { <<LineGood, LineTurned>>, <<LineGood, LineShort>>, <<LineBadField>> }

Cos4(q) == CASE q % 4 = 0 -> 1 [] q % 4 = 1 -> 0 [] q % 4 = 2 -> -1 [] OTHER -> 0
Sin4(q) == CASE q % 4 = 0 -> 0 [] q % 4 = 1 -> 1 [] q % 4 = 2 -> 0 [] OTHER -> -1

\* utils.numpy_utils.rotate_rectangle: rotation about the first corner
rotate_rectangle(points, q) ==
    LET px == points[1][1]
        py == points[1][2]
    IN [i \in 1..Len(points) |->
           << px + (points[i][1] - px) * Cos4(q) - (points[i][2] - py) * Sin4(q),
              py + (points[i][1] - px) * Sin4(q) + (points[i][2] - py) * Cos4(q) >>]

MinOf(S) == CHOOSE m \in S : \A e \in S : m <= e
MaxOf(S) == CHOOSE m \in S : \A e \in S : m >= e

\* normalize_bboxes: the corners top-left, bottom-left, bottom-right,
\* top-right of the box x, y, w, h
Corners_swapped(x, y, w, h) ==
    << <<x, y>>, <<x, y + w>>, <<x + h, y + w>>, <<x + h, y>> >>

Corners(x, y, w, h) ==
    LET xlu == x
        ylu == y
        xrd == xlu + w
        yrd == ylu + h
    IN << <<xlu, ylu>>, <<xlu, yrd>>, <<xrd, yrd>>, <<xrd, ylu>> >>

EnclosingBox_corners(pts) ==
    [x1 |-> pts[1][1], y1 |-> pts[1][2], x2 |-> pts[3][1], y2 |-> pts[3][2]]

\* normalize_bboxes: min and max of the rotated corners on each axis
EnclosingBox(pts) ==
    LET xs == {pts[i][1] : i \in 1..Len(pts)}
        ys == {pts[i][2] : i \in 1..Len(pts)}
    IN [x1 |-> MinOf(xs), y1 |-> MinOf(ys), x2 |-> MaxOf(xs), y2 |-> MaxOf(ys)]

\* MSRA_TD500_annotation.normalize_bboxes, after float(angle) succeeded
normalize_bboxes(x, y, w, h, q) ==
    EnclosingBox(rotate_rectangle(Corners(x, y, w, h), q))

\* BaseTextDetectionAnnotation.__init__: a box with optional label and text
BaseTextDetectionAnnotation(x1, y1, x2, y2, label, text) ==
    [x1 |-> x1, y1 |-> y1, x2 |-> x2, y2 |-> y2, label |-> label, text |-> text]

Raised(e) == [err |-> e, val |-> <<>>]
Returned(v) == [err |-> "none", val |-> <<v>>]

\* MSRA_TD500_annotation.__init__: the annotation, or the exception raised
MSRA_TD500_annotation(annot_str) ==
    IF Len(annot_str) # 7 THEN Raised("ValueError")
    ELSE LET idx == annot_str[1]
             difficult == annot_str[2]
             x == annot_str[3]
             y == annot_str[4]
             w == annot_str[5]
             h == annot_str[6]
             angle == annot_str[7]
         IN IF ~(IntOk(idx) /\ IntOk(x) /\ IntOk(y) /\ IntOk(w) /\ IntOk(h))
            THEN Raised("ValueError")
            ELSE IF ~FloatOk(angle) THEN Raised("ValueError")
            ELSE LET b == normalize_bboxes(x.v, y.v, w.v, h.v, angle.v)
                 IN Returned([x1 |-> b.x1, y1 |-> b.y1, x2 |-> b.x2, y2 |-> b.y2,
                              label |-> "", text |-> "",
                              difficult |-> (difficult = I(1)), idx |-> idx.v])

\* MSRA_TD500_dataset.read_annotation_file: the annotations of the lines in
\* order, or the exception of the first line that raises
RECURSIVE read_annotation_file(_)
read_annotation_file(lines) ==
    IF lines = <<>> THEN Returned(<<>>)
    ELSE LET annot == MSRA_TD500_annotation(Head(lines))
         IN IF annot.err # "none" THEN Raised(annot.err)
            ELSE LET rest == read_annotation_file(Tail(lines))
                 IN IF rest.err # "none" THEN rest
                    ELSE Returned(annot.val \o rest.val[1])

\* list.sort() of the paths of one directory: ascending file names
Sorted(S) ==
    CHOOSE s \in [1..Cardinality(S) -> S] :
        \A i, j \in 1..Cardinality(S) : i < j => s[i] < s[j]

Min2(a, b) == IF a <= b THEN a ELSE b

\* set_dir.glob(pattern): no path when the directory does not exist
glob(dir, ext) == IF ~dir.present THEN {} ELSE IF ext = "gt" THEN dir.gts ELSE dir.jpgs

RECURSIVE read_pairs(_, _, _, _, _)
read_pairs(name, dir, annots_files, img_pths, k) ==
    IF k > Min2(Len(annots_files), Len(img_pths)) THEN Returned(<<>>)
    ELSE LET annots == read_annotation_file(dir.content[annots_files[k]])
         IN IF annots.err # "none" THEN Raised(annots.err)
            ELSE LET rest == read_pairs(name, dir, annots_files, img_pths, k + 1)
                 IN IF rest.err # "none" THEN rest
                    ELSE Returned(<<[img |-> <<name, img_pths[k]>>,
                                     annots |-> annots.val[1]]>> \o rest.val[1])

\* MSRA_TD500_dataset.read_set: the samples, or the exception raised
read_set(name, dir) ==
    read_pairs(name, dir, Sorted(glob(dir, "gt")), Sorted(glob(dir, "JPG")), 1)

list_sort_none(paths) == paths

\* Insert(sorted, e): sorted with e put before the first greater element
RECURSIVE Insert(_, _)
Insert(sorted, e) ==
    IF sorted = <<>> THEN <<e>>
    ELSE IF e <= Head(sorted) THEN <<e>> \o sorted
    ELSE <<Head(sorted)>> \o Insert(Tail(sorted), e)

\* list.sort() of the list glob returned, whatever order it came in
RECURSIVE list_sort(_)
list_sort(paths) ==
    IF paths = <<>> THEN <<>>
    ELSE Insert(list_sort(Tail(paths)), Head(paths))

\* the orders in which the file system may enumerate a set of paths
Enumerations(S) ==
    {e \in [1..Cardinality(S) -> S] :
        \A i, j \in 1..Cardinality(S) : i # j => e[i] # e[j]}

\* MSRA_TD500_dataset.read_set given the lists the two globs returned
read_set_listed(name, dir, annots_files, img_pths) ==
    read_pairs(name, dir, list_sort(annots_files), list_sort(img_pths), 1)

\* MSRA_TD500_dataset.__init__
MSRA_TD500_dataset_init ==
    /\ pc = "start"
    /\ LET train == read_set("train", fs["train"])
           test == read_set("test", fs["test"])
       IN IF train.err # "none"
          THEN /\ pc' = "failed" /\ err' = train.err /\ UNCHANGED dataset_subsets
          ELSE IF test.err # "none"
          THEN /\ pc' = "failed" /\ err' = test.err /\ UNCHANGED dataset_subsets
          ELSE /\ pc' = "dataset"
               /\ err' = "none"
               /\ dataset_subsets' = [name \in DictKeys |->
                      IF name = "train" THEN train.val[1] ELSE test.val[1]]
    /\ ret' = <<>>
    /\ lastOp' = "MSRA_TD500_dataset"
    /\ lastArg' = ""
    /\ UNCHANGED <<otherVars, fs, subsets, current_idx, current_subset, runOp, runStart, runCount>>

(***************************************************************************)
(* ViewerDataset.Subset                                                    *)
(***************************************************************************)
Subset_next_sample_nowrap(idx, n) == idx + 1

Subset_next_sample_skip(idx, n) == (idx + 2) % n

\* Subset.next_sample: the new value of _current_idx
Subset_next_sample(idx, n) == (idx + 1) % n

Subset_previous_sample_len(idx, n) == IF idx - 1 >= 0 THEN idx - 1 ELSE n

Subset_previous_sample_clamp(idx, n) == IF idx - 1 >= 0 THEN idx - 1 ELSE 0

\* Subset.previous_sample: the new value of _current_idx
Subset_previous_sample(idx, n) == IF idx - 1 >= 0 THEN idx - 1 ELSE n - 1

\* Subset.__getitem__ on a Python list: negative indices count from the end
Subset_getitem(s, idx) ==
    IF idx >= 0 /\ idx < Len(s) THEN <<s[idx + 1]>>
    ELSE IF idx < 0 /\ idx >= -Len(s) THEN <<s[Len(s) + idx + 1]>>
    ELSE <<>>

(***************************************************************************)
(* ViewerDataset                                                           *)
(***************************************************************************)
NonEmptyKeys_all(names) == names

\* the keys the dictionary comprehension of ViewerDataset.__init__ keeps
\* of the dataset ds
NonEmptyKeysOf(ds, names) ==
    SelectSeq(names, LAMBDA name : Len(ds[name]) # 0)

\* the keys kept by the dictionary comprehension of ViewerDataset.__init__
NonEmptyKeys(names) == NonEmptyKeysOf(dataset_subsets, names)

FirstKey_last(keys) == keys[Len(keys)]

\* list(self._subsets.keys())[0]
FirstKey(keys) == keys[1]

\* ViewerDataset.__init__
ViewerDataset_init ==
    /\ pc = "dataset"
    /\ LET keys == NonEmptyKeys(get_subsets_names) IN
       IF keys = <<>>
       THEN \* list(self._subsets.keys())[0] raises IndexError
            /\ pc' = "failed"
            /\ err' = "IndexError"
            /\ UNCHANGED viewerVars
       ELSE /\ pc' = "viewer"
            /\ err' = "none"
            /\ subsets' = keys
            /\ current_idx' = [name \in Range(keys) |-> 0]
            /\ current_subset' = FirstKey(keys)
    /\ ret' = <<>>
    /\ lastOp' = "ViewerDataset"
    /\ lastArg' = ""
    /\ UNCHANGED <<otherVars, fs, dataset_subsets, runVars>>

\* ViewerDataset.available_subsets
available_subsets == subsets

HasSubset(name) == name \in DOMAIN current_idx

\* bookkeeping of consecutive next_sample / previous_sample calls on the
\* current subset; a run that completed a full cycle starts afresh
RunStep(op) ==
    LET n == Len(dataset_subsets[current_subset]) IN
    IF runOp = op /\ runCount < n
    THEN /\ runCount' = runCount + 1
         /\ UNCHANGED <<runOp, runStart>>
    ELSE /\ runOp' = op
         /\ runStart' = current_idx[current_subset]
         /\ runCount' = 1

RunReset ==
    /\ runOp' = "none"
    /\ runStart' = 0
    /\ runCount' = 0

\* the dictionary lookup self._subsets[self._current_subset] fails
RaiseKeyError(op) ==
    /\ err' = "KeyError"
    /\ ret' = <<>>
    /\ lastOp' = op
    /\ lastArg' = ""
    /\ RunReset
    /\ UNCHANGED <<otherVars, fs, dataset_subsets, pc, viewerVars>>

\* ViewerDataset.next_sample
next_sample ==
    /\ pc = "viewer"
    /\ IF ~HasSubset(current_subset) THEN RaiseKeyError("next_sample")
       ELSE LET s == dataset_subsets[current_subset]
                idx == Subset_next_sample(current_idx[current_subset], Len(s))
            IN /\ current_idx' = [current_idx EXCEPT ![current_subset] = idx]
               /\ ret' = Subset_getitem(s, idx)
               /\ err' = IF Subset_getitem(s, idx) = <<>>
                           THEN "IndexError" ELSE "none"
               /\ lastOp' = "next_sample"
               /\ lastArg' = ""
               /\ RunStep("next_sample")
               /\ UNCHANGED <<otherVars, fs, dataset_subsets, pc, subsets, current_subset>>

\* ViewerDataset.previous_sample
previous_sample ==
    /\ pc = "viewer"
    /\ IF ~HasSubset(current_subset) THEN RaiseKeyError("previous_sample")
       ELSE LET s == dataset_subsets[current_subset]
                idx == Subset_previous_sample(current_idx[current_subset],
                                               Len(s))
            IN /\ current_idx' = [current_idx EXCEPT ![current_subset] = idx]
               /\ ret' = Subset_getitem(s, idx)
               /\ err' = IF Subset_getitem(s, idx) = <<>>
                           THEN "IndexError" ELSE "none"
               /\ lastOp' = "previous_sample"
               /\ lastArg' = ""
               /\ RunStep("previous_sample")
               /\ UNCHANGED <<otherVars, fs, dataset_subsets, pc, subsets, current_subset>>

set_current_subset_reset(subset_name) ==
    /\ pc = "viewer"
    /\ current_subset' = subset_name
    /\ current_idx' = [name \in DOMAIN current_idx |->
                          IF name = subset_name THEN 0 ELSE current_idx[name]]
    /\ err' = "none"
    /\ ret' = <<>>
    /\ lastOp' = "set_current_subset"
    /\ lastArg' = subset_name
    /\ RunReset
    /\ UNCHANGED <<otherVars, fs, dataset_subsets, pc, subsets>>

\* ViewerDataset.set_current_subset: a plain assignment
set_current_subset(subset_name) ==
    /\ pc = "viewer"
    /\ current_subset' = subset_name
    /\ err' = "none"
    /\ ret' = <<>>
    /\ lastOp' = "set_current_subset"
    /\ lastArg' = subset_name
    /\ RunReset
    /\ UNCHANGED <<otherVars, fs, dataset_subsets, pc, subsets, current_idx>>

\* ViewerDataset.get_current_sample
get_current_sample ==
    /\ pc = "viewer"
    /\ IF ~HasSubset(current_subset) THEN RaiseKeyError("get_current_sample")
       ELSE LET s == dataset_subsets[current_subset]
                r == Subset_getitem(s, current_idx[current_subset])
            IN /\ ret' = r
               /\ err' = IF r = <<>> THEN "IndexError" ELSE "none"
               /\ lastOp' = "get_current_sample"
               /\ lastArg' = ""
               /\ RunReset
               /\ UNCHANGED <<otherVars, fs, dataset_subsets, pc, viewerVars>>

set_index_wrapped(subset_name, idx) ==
    /\ pc = "viewer"
    /\ HasSubset(subset_name)
    /\ current_idx' = [current_idx EXCEPT ![subset_name] =
                           idx % Len(dataset_subsets[subset_name])]
    /\ err' = "none"
    /\ ret' = <<>>
    /\ lastOp' = "set_index"
    /\ lastArg' = <<subset_name, idx>>
    /\ RunReset
    /\ UNCHANGED <<otherVars, fs, dataset_subsets, pc, subsets, current_subset>>

\* Subset.set_index on the subset ViewerDataset.__getitem__ returns
set_index(subset_name, idx) ==
    /\ pc = "viewer"
    /\ HasSubset(subset_name)
    /\ current_idx' = [current_idx EXCEPT ![subset_name] = idx]
    /\ err' = "none"
    /\ ret' = <<>>
    /\ lastOp' = "set_index"
    /\ lastArg' = <<subset_name, idx>>
    /\ RunReset
    /\ UNCHANGED <<otherVars, fs, dataset_subsets, pc, subsets, current_subset>>

\* ViewerDataset.get_current_index
get_current_index ==
    /\ pc = "viewer"
    /\ IF ~HasSubset(current_subset) THEN RaiseKeyError("get_current_index")
       ELSE /\ ret' = <<[index |-> current_idx[current_subset]]>>
            /\ err' = "none"
            /\ lastOp' = "get_current_index"
            /\ lastArg' = ""
            /\ RunReset
            /\ UNCHANGED <<otherVars, fs, dataset_subsets, pc, viewerVars>>

(***************************************************************************)
(* Navigation over an arbitrary opened dataset.                            *)
(***************************************************************************)
Init ==
    /\ fs = NoFs
    /\ \E sizes \in [DictKeys -> 0..MaxSamples] :
           dataset_subsets = [name \in DictKeys |->
                                 MakeSamples(name, sizes[name])]
    /\ pc = "dataset"
    /\ subsets = <<>>
    /\ current_idx = <<>>
    /\ current_subset = ""
    /\ err = "none"
    /\ ret = <<>>
    /\ lastOp = "none"
    /\ lastArg = ""
    /\ runOp = "none"
    /\ runStart = 0
    /\ runCount = 0
    /\ OtherInit

Next ==
    \/ ViewerDataset_init
    \/ next_sample
    \/ previous_sample
    \/ \E name \in RequestNames : set_current_subset(name)
    \/ get_current_sample

Spec == Init /\ [][Next]_vars

(***************************************************************************)
(* Navigation with direct index setting.                                   *)
(***************************************************************************)
IndexInputs == -(MaxSamples + 2)..(MaxSamples + 2)

NextIndex ==
    \/ Next
    \/ \E name \in DictKeys, idx \in IndexInputs : set_index(name, idx)
    \/ get_current_index

SpecIndex == Init /\ [][NextIndex]_vars

(***************************************************************************)
(* Opening a dataset folder: ViewerWindow.load_dataset builds the dataset  *)
(* from the folder, the ViewerDataset over it, and loads the first sample. *)
(***************************************************************************)
Stems == 1..MaxStem

Listings ==
    { [present |-> FALSE, gts |-> {}, jpgs |-> {}, content |-> <<>>] }
    \cup
    UNION { UNION { { [present |-> TRUE, gts |-> g, jpgs |-> j, content |-> c] :
                          c \in [g -> FileContents] } :
                    j \in SUBSET Stems } :
            g \in SUBSET Stems }

InitOpen ==
    /\ fs \in [DictKeys -> Listings]
    /\ dataset_subsets = <<>>
    /\ pc = "start"
    /\ subsets = <<>>
    /\ current_idx = <<>>
    /\ current_subset = ""
    /\ err = "none"
    /\ ret = <<>>
    /\ lastOp = "none"
    /\ lastArg = ""
    /\ runOp = "none"
    /\ runStart = 0
    /\ runCount = 0
    /\ OtherInit

NextOpen ==
    \/ MSRA_TD500_dataset_init
    \/ ViewerDataset_init
    \/ get_current_sample

SpecOpen == InitOpen /\ [][NextOpen]_vars

(***************************************************************************)
(* Reading the train directory repeatedly: each read_set call gets the     *)
(* paths in whatever order the file system enumerates them.                *)
(***************************************************************************)
MaxReads == 2

InitRead ==
    /\ \E l \in Listings : fs = [NoFs EXCEPT !["train"] = l]
    /\ dataset_subsets = <<>>
    /\ pc = "read"
    /\ subsets = <<>>
    /\ current_idx = <<>>
    /\ current_subset = ""
    /\ err = "none"
    /\ ret = <<>>
    /\ lastOp = "none"
    /\ lastArg = ""
    /\ runOp = "none"
    /\ runStart = 0
    /\ runCount = 0
    /\ OtherInit

\* samples = self.read_set(train_dir)
ReadSetCall ==
    /\ pc = "read"
    /\ Len(reads) < MaxReads
    /\ \E annots_files \in Enumerations(glob(fs["train"], "gt")),
          img_pths \in Enumerations(glob(fs["train"], "JPG")) :
           LET r == read_set_listed("train", fs["train"], annots_files, img_pths)
           IN /\ reads' = Append(reads, [annots_files |-> annots_files,
                                         img_pths |-> img_pths,
                                         result |-> r])
              /\ err' = r.err
    /\ lastOp' = "read_set"
    /\ UNCHANGED <<fs, dataset_subsets, pc, viewerVars, ret, lastArg, runVars,
                   guiVars, geomVars, edits, cellVars>>

NextRead == ReadSetCall

SpecRead == InitRead /\ [][NextRead]_vars

(***************************************************************************)
(* Building one annotation from one line of a .gt file.                    *)
(***************************************************************************)
MaxSize == 2

GeomLines ==
    { <<I(1), d, I(x), I(y), I(w), I(h), a>> :
          d \in {I(0), I(1), W}, x \in {0, 10}, y \in {0, 20},
          w \in -MaxSize..MaxSize, h \in -MaxSize..MaxSize,
          a \in {I(0), F(0), F(1), F(2), F(3), W} }

InitGeom ==
    /\ fs = NoFs
    /\ dataset_subsets = <<>>
    /\ pc = "line"
    /\ subsets = <<>>
    /\ current_idx = <<>>
    /\ current_subset = ""
    /\ err = "none"
    /\ ret = <<>>
    /\ lastOp = "none"
    /\ lastArg = ""
    /\ runOp = "none"
    /\ runStart = 0
    /\ runCount = 0
    /\ table = <<>>
    /\ currentRow = -1
    /\ row_adding = FALSE
    /\ line_str \in GeomLines
    /\ corners = <<>>
    /\ built = <<>>
    /\ reads = <<>>
    /\ edits = 0
    /\ todo = <<>>
    /\ step = "idle"
    /\ replacements = 0
    /\ reloads = 0

\* annot = MSRA_TD500_annotation(annot_str)
BuildAnnotation ==
    /\ pc = "line"
    /\ LET r == MSRA_TD500_annotation(line_str)
       IN /\ built' = r.val
          /\ err' = r.err
          /\ corners' = IF r.err = "none"
                        THEN rotate_rectangle(
                                 Corners(line_str[3].v, line_str[4].v,
                                         line_str[5].v, line_str[6].v),
                                 line_str[7].v)
                        ELSE <<>>
    /\ pc' = "built"
    /\ lastOp' = "MSRA_TD500_annotation"
    /\ UNCHANGED <<fs, dataset_subsets, viewerVars, ret, lastArg, runVars,
                   guiVars, line_str, reads, edits, cellVars>>

NextGeom == BuildAnnotation

SpecGeom == InitGeom /\ [][NextGeom]_vars

(***************************************************************************)
(* The viewer window: viewer/viewer_modules/viewer_window.py.  Each slot   *)
(* runs to completion on the GUI thread.  Table rows and currentRow are    *)
(* 0-based as in Qt; row r of the table is table[r + 1].  A numeric cell   *)
(* text is a token as in the annotation lines.                             *)
(***************************************************************************)
MaxRows == 3
MaxEdits == 1

\* str(n) of an int: its decimal literal
py_str(n) == I(n)

\* the six cells add_new_row writes for an annotation
RowOf(annotation) ==
    << py_str(annotation.x1), py_str(annotation.y1), py_str(annotation.x2),
       py_str(annotation.y2), annotation.label, annotation.text >>

\* the six cells add_new_row writes when no annotation is given
DefaultRow == << py_str(0), py_str(0), py_str(1), py_str(1), "english", "text" >>

\* ViewerWindow.show_annotations: the table after setRowCount(0) and one
\* add_new_row per annotation
show_annotations(annots) == [i \in 1..Len(annots) |-> RowOf(annots[i])]

\* ViewerWindow.load_sample: the table shows the sample; clearing the rows
\* leaves no current row
load_sample(sample) ==
    /\ table' = show_annotations(sample.annots)
    /\ currentRow' = -1
    /\ row_adding' = FALSE

GuiFrame == UNCHANGED <<fs, ret, runVars, geomVars, reads, cellVars>>

CurrentSample == dataset_subsets[current_subset][current_idx[current_subset] + 1]

\* ViewerWindow.load_dataset; the folder is opened once
load_dataset ==
    /\ pc = "start"
    /\ lastOp = "none"
    /\ LET train == read_set("train", fs["train"])
           test == read_set("test", fs["test"])
           ds == [name \in DictKeys |->
                     IF name = "train" THEN train.val[1] ELSE test.val[1]]
       IN IF train.err # "none" \/ test.err # "none"
          THEN /\ err' = IF train.err # "none" THEN train.err ELSE test.err
               /\ UNCHANGED <<dataset_subsets, pc, viewerVars, guiVars>>
          ELSE IF NonEmptyKeysOf(ds, get_subsets_names) = <<>>
          THEN /\ err' = "IndexError"
               /\ UNCHANGED <<dataset_subsets, pc, viewerVars, guiVars>>
          ELSE LET keys == NonEmptyKeysOf(ds, get_subsets_names)
               IN /\ err' = "none"
                  /\ pc' = "viewer"
                  /\ dataset_subsets' = ds
                  /\ subsets' = keys
                  /\ current_idx' = [name \in Range(keys) |-> 0]
                  /\ current_subset' = FirstKey(keys)
                  /\ load_sample(ds[FirstKey(keys)][1])
    /\ lastOp' = "load_dataset"
    /\ lastArg' = ""
    /\ UNCHANGED edits
    /\ GuiFrame

\* ViewerWindow.next_btn_click
next_btn_click ==
    /\ pc = "viewer"
    /\ LET samples == dataset_subsets[current_subset]
           idx == Subset_next_sample(current_idx[current_subset], Len(samples))
       IN /\ current_idx' = [current_idx EXCEPT ![current_subset] = idx]
          /\ load_sample(samples[idx + 1])
    /\ err' = "none"
    /\ lastOp' = "next_btn_click"
    /\ lastArg' = ""
    /\ UNCHANGED <<dataset_subsets, pc, subsets, current_subset, edits>>
    /\ GuiFrame

\* ViewerWindow.previous_btn_click
previous_btn_click ==
    /\ pc = "viewer"
    /\ LET samples == dataset_subsets[current_subset]
           idx == Subset_previous_sample(current_idx[current_subset],
                                          Len(samples))
       IN /\ current_idx' = [current_idx EXCEPT ![current_subset] = idx]
          /\ load_sample(samples[idx + 1])
    /\ err' = "none"
    /\ lastOp' = "previous_btn_click"
    /\ lastArg' = ""
    /\ UNCHANGED <<dataset_subsets, pc, subsets, current_subset, edits>>
    /\ GuiFrame

\* ViewerWindow.subset_changed, fired when the user picks another item of
\* the combo box, which lists available_subsets()
subset_changed(new_subset) ==
    /\ pc = "viewer"
    /\ new_subset \in Range(available_subsets)
    /\ new_subset # current_subset
    /\ current_subset' = new_subset
    /\ load_sample(dataset_subsets[new_subset][current_idx[new_subset] + 1])
    /\ err' = "none"
    /\ lastOp' = "subset_changed"
    /\ lastArg' = new_subset
    /\ UNCHANGED <<dataset_subsets, pc, subsets, current_idx, edits>>
    /\ GuiFrame

\* ViewerWindow.add_new_row fired by the add button: it is given no
\* annotation and appends the default row to the table only
add_new_row ==
    /\ pc = "viewer"
    /\ Len(table) < MaxRows
    /\ table' = Append(table, DefaultRow)
    /\ err' = "none"
    /\ lastOp' = "add_new_row"
    /\ lastArg' = ""
    /\ UNCHANGED <<dataset_subsets, pc, viewerVars, currentRow, row_adding, edits>>
    /\ GuiFrame

\* the user clicks a cell of row r, which becomes the current row
SelectRow(r) ==
    /\ pc = "viewer"
    /\ r \in 0..(Len(table) - 1)
    /\ r # currentRow
    /\ currentRow' = r
    /\ err' = "none"
    /\ lastOp' = "select_row"
    /\ lastArg' = ""
    /\ UNCHANGED <<dataset_subsets, pc, viewerVars, table, row_adding, edits>>
    /\ GuiFrame

\* the table without its row r
RemoveRow(rows, r) ==
    [i \in 1..(Len(rows) - 1) |-> IF i <= r THEN rows[i] ELSE rows[i + 1]]

\* ViewerTable.keyPressEvent for the Delete key: removes the current row of
\* the table only; Qt moves the current row to the row that took its place
keyPressEvent ==
    /\ pc = "viewer"
    /\ IF currentRow = -1
       THEN UNCHANGED <<table, currentRow>>
       ELSE /\ table' = RemoveRow(table, currentRow)
            /\ currentRow' = IF currentRow < Len(table) - 1 THEN currentRow
                             ELSE Len(table) - 2
    /\ err' = "none"
    /\ lastOp' = "keyPressEvent"
    /\ lastArg' = ""
    /\ UNCHANGED <<dataset_subsets, pc, viewerVars, row_adding, edits>>
    /\ GuiFrame

\* ViewerWindow.table_changed, fired by itemChanged after the user edited a
\* cell of row row_idx; edited is the table with the user's text in it
table_changed(edited, row_idx) ==
    IF row_adding
    THEN /\ table' = edited
         /\ currentRow' = row_idx
         /\ err' = "none"
         /\ UNCHANGED <<dataset_subsets, row_adding>>
    ELSE LET row == edited[row_idx + 1]
             annots == CurrentSample.annots
         IN IF ~(IntOk(row[1]) /\ IntOk(row[2]) /\ IntOk(row[3]) /\ IntOk(row[4]))
            THEN \* int(text) raises
                 /\ table' = edited
                 /\ currentRow' = row_idx
                 /\ err' = "ValueError"
                 /\ UNCHANGED <<dataset_subsets, row_adding>>
            ELSE IF row_idx >= Len(annots)
            THEN \* list assignment index out of range
                 /\ table' = edited
                 /\ currentRow' = row_idx
                 /\ err' = "IndexError"
                 /\ UNCHANGED <<dataset_subsets, row_adding>>
            ELSE LET new == BaseTextDetectionAnnotation(
                                row[1].v, row[2].v, row[3].v, row[4].v,
                                row[5], row[6])
                     i == current_idx[current_subset] + 1
                     replaced == [annots EXCEPT ![row_idx + 1] = new]
                 IN /\ dataset_subsets' =
                           [dataset_subsets EXCEPT
                               ![current_subset][i].annots = replaced]
                    /\ load_sample([CurrentSample EXCEPT !.annots = replaced])
                    /\ err' = "none"

\* texts the user types into a cell of column c (0..3 numeric, 4 and 5 text)
EditTexts(c) == IF c <= 3 THEN {I(50), W} ELSE {"word"}

\* the user edits the cell at row r, column c to the text v
UserEdit(r, c, v) ==
    /\ pc = "viewer"
    /\ edits < MaxEdits
    /\ r \in 0..(Len(table) - 1)
    /\ c \in 0..5
    /\ v \in EditTexts(c)
    /\ v # table[r + 1][c + 1]
    /\ table_changed([table EXCEPT ![r + 1][c + 1] = v], r)
    /\ edits' = edits + 1
    /\ lastOp' = "table_changed"
    /\ lastArg' = <<r, c, v>>
    /\ UNCHANGED <<pc, viewerVars>>
    /\ GuiFrame

\* dataset folders opened in the window
GuiListings ==
    { [present |-> FALSE, gts |-> {}, jpgs |-> {}, content |-> <<>>],
      [present |-> TRUE, gts |-> {1, 2}, jpgs |-> {1, 2},
       content |-> [g \in {1, 2} |->
                       IF g = 1 THEN <<LineGood, LineTurned>> ELSE <<>>]] }

InitGui ==
    /\ fs \in [DictKeys -> GuiListings]
    /\ dataset_subsets = <<>>
    /\ pc = "start"
    /\ subsets = <<>>
    /\ current_idx = <<>>
    /\ current_subset = ""
    /\ err = "none"
    /\ ret = <<>>
    /\ lastOp = "none"
    /\ lastArg = ""
    /\ runOp = "none"
    /\ runStart = 0
    /\ runCount = 0
    /\ OtherInit

NextGui ==
    \/ load_dataset
    \/ next_btn_click
    \/ previous_btn_click
    \/ \E name \in DictKeys : subset_changed(name)
    \/ add_new_row
    \/ \E r \in 0..(MaxRows - 1) : SelectRow(r)
    \/ keyPressEvent
    \/ \E r \in 0..(MaxRows - 1), c \in 0..5 :
           \E v \in EditTexts(c) : UserEdit(r, c, v)

SpecGui == InitGui /\ [][NextGui]_vars

(***************************************************************************)
(* The viewer window one table call at a time.  Qt delivers itemChanged    *)
(* synchronously, inside the call that set the item, so table_changed runs *)
(* nested in ViewerTable.setItem.  todo is the continuation of the running *)
(* slot: the calls it has still to make, innermost first.  A row of the    *)
(* table holds the items set so far; a cell beyond them has no item.       *)
(***************************************************************************)
CellFrame == UNCHANGED <<fs, ret, runVars, geomVars, reads, pc, viewerVars>>

\* where the GUI thread goes on once a call has returned
Resume(rest) == IF rest = <<>> THEN "idle" ELSE "call"

\* the six setItem calls add_new_row makes for row row_count
setItem_calls(row_count, texts) ==
    [c \in 1..Len(texts) |->
        [op |-> "setItem", row |-> row_count, col |-> c - 1, item |-> texts[c]]]

\* the add_new_row calls show_annotations makes
show_annotations_calls(annots) ==
    [i \in 1..Len(annots) |-> [op |-> "add_new_row", texts |-> RowOf(annots[i])]]

\* the add button: add_new_row() without an annotation
add_btn_clicked ==
    /\ pc = "viewer"
    /\ step = "idle"
    /\ Len(table) < MaxRows
    /\ todo' = <<[op |-> "add_new_row", texts |-> DefaultRow]>>
    /\ step' = "call"
    /\ replacements' = 0
    /\ reloads' = 0
    /\ err' = "none"
    /\ lastOp' = "add_new_row"
    /\ lastArg' = ""
    /\ UNCHANGED <<dataset_subsets, guiVars, edits>>
    /\ CellFrame

\* ViewerWindow.add_new_row: insertRow(row_count), then six setItem calls
add_new_row_call ==
    /\ step = "call"
    /\ Head(todo).op = "add_new_row"
    /\ table' = Append(table, <<>>)
    /\ todo' = setItem_calls(Len(table), Head(todo).texts) \o Tail(todo)
    /\ UNCHANGED <<dataset_subsets, currentRow, row_adding, step, err, lastOp,
                   lastArg, edits, replacements, reloads>>
    /\ CellFrame

\* ViewerTable.setItem: self.row_adding = True
setItem_enter ==
    /\ step = "call"
    /\ Head(todo).op = "setItem"
    /\ row_adding' = TRUE
    /\ todo' = <<[Head(todo) EXCEPT !.op = "super_setItem"]>> \o Tail(todo)
    /\ UNCHANGED <<dataset_subsets, table, currentRow, step, err, lastOp,
                   lastArg, edits, replacements, reloads>>
    /\ CellFrame

\* ViewerTable.setItem: super().setItem(row, column, item); Qt puts the item
\* in the table and emits itemChanged, or ignores a row the table lacks
setItem_super ==
    /\ step = "call"
    /\ Head(todo).op = "super_setItem"
    /\ LET r == Head(todo).row
           c == Head(todo).col
       IN IF r < Len(table)
          THEN /\ table' = [table EXCEPT ![r + 1] =
                               IF c < Len(@)
                               THEN [@ EXCEPT ![c + 1] = Head(todo).item]
                               ELSE Append(@, Head(todo).item)]
               /\ step' = "slot"
          ELSE UNCHANGED <<table, step>>
    /\ todo' = <<[op |-> "setItem_return"]>> \o Tail(todo)
    /\ UNCHANGED <<dataset_subsets, currentRow, row_adding, err, lastOp,
                   lastArg, edits, replacements, reloads>>
    /\ CellFrame

\* ViewerTable.setItem: self.row_adding = False
setItem_exit ==
    /\ step = "call"
    /\ Head(todo).op = "setItem_return"
    /\ row_adding' = FALSE
    /\ todo' = Tail(todo)
    /\ step' = Resume(Tail(todo))
    /\ UNCHANGED <<dataset_subsets, table, currentRow, err, lastOp, lastArg,
                   edits, replacements, reloads>>
    /\ CellFrame

\* an exception leaves the slot: nothing more of it runs
RaiseInSlot(e) ==
    /\ err' = e
    /\ todo' = <<>>
    /\ step' = "idle"
    /\ UNCHANGED <<dataset_subsets, table, currentRow, replacements, reloads>>

\* ViewerWindow.table_changed as itemChanged calls it; item(row, column) of
\* a cell without an item is None
table_changed_slot ==
    /\ step = "slot"
    /\ IF row_adding
       THEN \* the event was fired while a row is being added
            /\ step' = Resume(todo)
            /\ UNCHANGED <<dataset_subsets, table, currentRow, todo, err,
                           replacements, reloads>>
       ELSE LET row_idx == currentRow
                annots == CurrentSample.annots
            IN IF row_idx = -1 \/ Len(table[row_idx + 1]) < Len(DefaultRow)
               THEN RaiseInSlot("AttributeError")
               ELSE IF \E k \in 1..4 : ~IntOk(table[row_idx + 1][k])
               THEN RaiseInSlot("ValueError")
               ELSE IF row_idx >= Len(annots)
               THEN RaiseInSlot("IndexError")
               ELSE LET row == table[row_idx + 1]
                        new == BaseTextDetectionAnnotation(
                                   row[1].v, row[2].v, row[3].v, row[4].v,
                                   row[5], row[6])
                        i == current_idx[current_subset] + 1
                        changed == [annots EXCEPT ![row_idx + 1] = new]
                    IN /\ dataset_subsets' =
                              [dataset_subsets EXCEPT
                                  ![current_subset][i].annots = changed]
                       /\ replacements' = replacements + 1
                       \* load_sample: setRowCount(0), then show_annotations
                       /\ reloads' = reloads + 1
                       /\ table' = <<>>
                       /\ currentRow' = -1
                       /\ todo' = show_annotations_calls(changed) \o todo
                       /\ step' = "call"
                       /\ err' = "none"
    /\ UNCHANGED <<row_adding, lastOp, lastArg, edits>>
    /\ CellFrame

\* the user commits the text v in the cell at row r, column c: Qt changes
\* the item of the current cell and emits itemChanged
cell_edited(r, c, v) ==
    /\ pc = "viewer"
    /\ step = "idle"
    /\ edits < MaxEdits
    /\ r \in 0..(Len(table) - 1)
    /\ c \in 0..5
    /\ v \in EditTexts(c)
    /\ v # table[r + 1][c + 1]
    /\ table' = [table EXCEPT ![r + 1][c + 1] = v]
    /\ currentRow' = r
    /\ step' = "slot"
    /\ edits' = edits + 1
    /\ replacements' = 0
    /\ reloads' = 0
    /\ err' = "none"
    /\ lastOp' = "table_changed"
    /\ lastArg' = <<r, c, v>>
    /\ UNCHANGED <<dataset_subsets, row_adding, todo>>
    /\ CellFrame

\* the user clicks a cell while no slot is running
cell_clicked(r) == step = "idle" /\ SelectRow(r)

NextCells ==
    \/ load_dataset
    \/ \E r \in 0..(MaxRows - 1) : cell_clicked(r)
    \/ add_btn_clicked
    \/ add_new_row_call
    \/ setItem_enter
    \/ setItem_super
    \/ setItem_exit
    \/ table_changed_slot
    \/ \E r \in 0..(MaxRows - 1), c \in 0..5 :
           \E v \in EditTexts(c) : cell_edited(r, c, v)

SpecCells == InitGui /\ [][NextCells]_vars

\* the steps of a running slot are taken: the GUI thread does not stop
RunSlot ==
    add_new_row_call \/ setItem_enter \/ setItem_exit \/ setItem_super
        \/ table_changed_slot

FairCells == SpecCells /\ WF_vars(RunSlot)

(***************************************************************************)
(* Properties of the navigation state.                                     *)
(***************************************************************************)
CurLen == Len(dataset_subsets[current_subset])
CurIdx == current_idx[current_subset]

\* C1: once the navigation state is constructed, the cursor of every
\* subset it holds is an index of that subset's sample sequence (0 <= idx <
\* n), and get_current_sample on a held subset never raises IndexError.
C1_CursorInRange ==
    pc = "viewer" =>
        /\ \A name \in DOMAIN current_idx :
               /\ current_idx[name] >= 0
               /\ current_idx[name] < Len(dataset_subsets[name])
        /\ (lastOp = "get_current_sample" /\ HasSubset(current_subset))
               => (err = "none" /\ ret = <<dataset_subsets[current_subset][CurIdx + 1]>>)

\* C1 witness: previous_sample has just wrapped from the first sample to
\* the last one of a subset of at least two samples.
C1_Witness ==
    /\ pc = "viewer"
    /\ HasSubset(current_subset)
    /\ runOp = "previous_sample" /\ runCount = 1 /\ runStart = 0
    /\ CurLen >= 2
    /\ CurIdx = CurLen - 1

\* C2: the current subset name is always one of the non-empty subsets held
\* by the navigation state.
C2_CurrentSubsetIsKey ==
    pc = "viewer" => current_subset \in Range(subsets)

\* C3: set_current_subset with a name that is not a held subset raises
\* InvalidSubsetError itself.
C3_InvalidSubsetRaises ==
    (lastOp = "set_current_subset" /\ lastArg \notin Range(subsets))
        => err = "InvalidSubsetError"

\* C4: constructing the navigation state over a dataset whose subsets are
\* all empty fails with EmptyDatasetError and produces no navigation state.
C4_EmptyDatasetRaises ==
    (lastOp = "ViewerDataset" /\ \A name \in DictKeys : dataset_subsets[name] = <<>>)
        => (err = "EmptyDatasetError" /\ pc = "failed" /\ subsets = <<>>)

\* C5: n consecutive next_sample calls (or n consecutive previous_sample
\* calls) on a subset of n samples leave the cursor where it started, and
\* the last call returns the sample at the starting index.
C5_FullCycle ==
    (pc = "viewer" /\ runOp \in {"next_sample", "previous_sample"}
        /\ HasSubset(current_subset) /\ runCount = CurLen)
        => /\ CurIdx = runStart
           /\ ret = <<dataset_subsets[current_subset][runStart + 1]>>
           /\ err = "none"

\* C5 witness: a full cycle of next_sample calls over a subset of at least
\* two samples, started away from index 0.
C5_Witness ==
    /\ pc = "viewer"
    /\ HasSubset(current_subset)
    /\ runOp = "next_sample"
    /\ CurLen >= 2
    /\ runCount = CurLen
    /\ runStart >= 1

\* C6: next_sample moves the cursor i of a subset of n samples to i + 1, or
\* to 0 from i = n - 1, and returns the sample at the new cursor.
C6_NextSample ==
    [][(lastOp' = "next_sample" /\ HasSubset(current_subset))
        => /\ current_idx'[current_subset] =
                  (IF CurIdx = CurLen - 1 THEN 0 ELSE CurIdx + 1)
           /\ ret' = <<dataset_subsets[current_subset]
                           [current_idx'[current_subset] + 1]>>
           /\ err' = "none"]_vars

\* C6 witness: next_sample has just wrapped from the last sample to the
\* first one of a subset of at least two samples.
C6_Witness ==
    /\ pc = "viewer"
    /\ HasSubset(current_subset)
    /\ runOp = "next_sample" /\ runCount = 1
    /\ CurLen >= 2
    /\ runStart = CurLen - 1
    /\ CurIdx = 0

\* C7: previous_sample moves the cursor i of a subset of n samples to i - 1
\* when i - 1 >= 0 and to n - 1 otherwise, and returns the sample at the new
\* cursor.
C7_PreviousSample ==
    [][(lastOp' = "previous_sample" /\ HasSubset(current_subset))
        => /\ current_idx'[current_subset] =
                  (IF CurIdx = 0 THEN CurLen - 1 ELSE CurIdx - 1)
           /\ ret' = <<dataset_subsets[current_subset]
                           [current_idx'[current_subset] + 1]>>
           /\ err' = "none"]_vars

\* C7 witness: previous_sample has just wrapped from index 0 to the last
\* sample of a subset of three samples, which it returned.
C7_Witness ==
    /\ pc = "viewer"
    /\ HasSubset(current_subset)
    /\ lastOp = "previous_sample"
    /\ runStart = 0 /\ runCount = 1
    /\ CurLen >= 3
    /\ ret = <<dataset_subsets[current_subset][CurLen]>>

(***************************************************************************)
(* Properties of opening a dataset folder.                                 *)
(***************************************************************************)
\* a record that is not seven tokens "index difficult x y w h angle" with
\* numeric index, x, y, w, h and angle
Malformed(line) ==
    \/ Len(line) # 7
    \/ \E i \in {1, 3, 4, 5, 6, 7} : line[i].kind = "word"

HasMalformed(dir) ==
    \E g \in glob(dir, "gt") :
        \E i \in 1..Len(dir.content[g]) : Malformed(dir.content[g][i])

Opened == lastOp = "MSRA_TD500_dataset"

\* C8: when any record of any annotation file of a subset folder is
\* malformed, opening the dataset ends in an error and yields no samples.
C8_FailFast ==
    (Opened /\ \E d \in DictKeys : HasMalformed(fs[d]))
        => (pc = "failed" /\ err # "none" /\ dataset_subsets = <<>>)

\* the annotation files read_set opens: those zip pairs with an image
PairedGts(dir) ==
    LET annots_files == Sorted(glob(dir, "gt"))
    IN {annots_files[k] : k \in 1..Min2(Len(annots_files),
                                          Cardinality(glob(dir, "JPG")))}

\* The fail-fast behaviour that does hold: a malformed record in a file
\* that read_set opens fails the whole dataset read with ValueError.
ReadFilesFailFast ==
    (Opened /\ \E d \in DictKeys : \E g \in PairedGts(fs[d]) :
                 \E i \in 1..Len(fs[d].content[g]) : Malformed(fs[d].content[g][i]))
        => (pc = "failed" /\ err = "ValueError" /\ dataset_subsets = <<>>)

\* C9: when a subset folder holds an annotation file without its image (or
\* different numbers of annotation and image files), reading the subset
\* fails with MissingResourceError.
C9_UnpairedRaises ==
    (Opened /\ \E d \in DictKeys : glob(fs[d], "gt") # glob(fs[d], "JPG"))
        => (pc = "failed" /\ err = "MissingResourceError")

TrainOnly == fs["train"].present /\ ~fs["test"].present

\* C10: a dataset root with a train folder (holding at least one
\* annotation/image pair, all records read well-formed) and no test folder
\* opens without error, and the subsets reported are exactly <<"train">>.
C10_TrainOnly ==
    (TrainOnly /\ PairedGts(fs["train"]) # {} /\ ~HasMalformed(fs["train"]))
        => /\ Opened => (pc = "dataset" /\ err = "none"
                            /\ dataset_subsets["test"] = <<>>
                            /\ dataset_subsets["train"] # <<>>)
           /\ lastOp \in {"ViewerDataset", "get_current_sample"}
                  => (pc = "viewer" /\ err = "none"
                        /\ available_subsets = <<"train">>
                        /\ current_subset = "train")

\* C10 witness: the viewer is open over a root with a train folder of two
\* pairs and no test folder, and has loaded its first sample.
C10_Witness ==
    /\ TrainOnly
    /\ Cardinality(PairedGts(fs["train"])) = 2
    /\ pc = "viewer"
    /\ lastOp = "get_current_sample"
    /\ available_subsets = <<"train">>
    /\ ret = <<dataset_subsets["train"][1]>>

(***************************************************************************)
(* Properties of the annotation built from a line.                         *)
(***************************************************************************)
LineX == line_str[3].v
LineY == line_str[4].v
LineW == line_str[5].v
LineH == line_str[6].v

ZeroAngleBuilt ==
    pc = "built" /\ line_str[7].kind # "word" /\ line_str[7].v = 0

BoxIsXYWH ==
    /\ err = "none"
    /\ Len(built) = 1
    /\ built[1].x1 = LineX /\ built[1].y1 = LineY
    /\ built[1].x2 = LineX + LineW /\ built[1].y2 = LineY + LineH
    /\ built[1].difficult = (line_str[2] = I(1))

\* C11 as stated: for every record with integer x, y, w, h and angle 0 the
\* annotation is (x, y, x + w, y + h) and difficult iff the token d is "1".
C11_ZeroAngleAnyBox == ZeroAngleBuilt => BoxIsXYWH

\* C11 amended: for every record with integer x, y, w >= 0, h >= 0 and
\* angle 0 the annotation is (x, y, x + w, y + h) and difficult iff the
\* token d is "1".
C11_ZeroAngle == (ZeroAngleBuilt /\ LineW >= 0 /\ LineH >= 0) => BoxIsXYWH

\* C11 witness: a record at (10, 20) with w = 1, h = 2, angle 0 and d = "1"
\* has been built into a difficult annotation.
C11_Witness ==
    /\ ZeroAngleBuilt
    /\ LineX = 10 /\ LineY = 20 /\ LineW = 1 /\ LineH = 2
    /\ Len(built) = 1
    /\ built[1].difficult

\* C12: the box of a built annotation has x1 <= x2 and y1 <= y2, contains
\* every rotated corner, and its sides are the least and greatest corner
\* coordinates.
C12_EnclosingBox ==
    (pc = "built" /\ err = "none") =>
        /\ built[1].x1 <= built[1].x2
        /\ built[1].y1 <= built[1].y2
        /\ \A i \in 1..4 :
               /\ built[1].x1 <= corners[i][1] /\ corners[i][1] <= built[1].x2
               /\ built[1].y1 <= corners[i][2] /\ corners[i][2] <= built[1].y2
        /\ \E i \in 1..4 : corners[i][1] = built[1].x1
        /\ \E i \in 1..4 : corners[i][1] = built[1].x2
        /\ \E i \in 1..4 : corners[i][2] = built[1].y1
        /\ \E i \in 1..4 : corners[i][2] = built[1].y2

\* C12 witness: a box of negative width and height turned by a quarter
\* turn has been built.
C12_Witness ==
    /\ pc = "built" /\ err = "none"
    /\ LineW < 0 /\ LineH < 0
    /\ line_str[7].v = 1
    /\ built[1].x1 < built[1].x2

(***************************************************************************)
(* Properties of reading a directory.                                      *)
(***************************************************************************)
\* the k-th name of a set of file names in ascending order
KthName(S, k) == CHOOSE e \in S : Cardinality({f \in S : f < e}) = k - 1

\* C14: every read of the same directory gives the same result whatever
\* the enumeration order, and sample k of a successful read pairs the k-th
\* annotation file with the k-th image in ascending name order.
C14_PairingDeterminism ==
    /\ \A i, j \in 1..Len(reads) : reads[i].result = reads[j].result
    /\ \A i \in 1..Len(reads) :
           reads[i].result.err = "none" =>
               LET samples == reads[i].result.val[1]
                   gts == glob(fs["train"], "gt")
                   jpgs == glob(fs["train"], "JPG")
               IN /\ Len(samples) = Min2(Cardinality(gts), Cardinality(jpgs))
                  /\ \A k \in 1..Len(samples) :
                         /\ samples[k].img = <<"train", KthName(jpgs, k)>>
                         /\ samples[k].annots =
                                read_annotation_file(
                                    fs["train"].content[KthName(gts, k)]).val[1]

\* C14 witness: two reads of a directory of two pairs, enumerated in
\* different orders, both returned two samples.
C14_Witness ==
    /\ Len(reads) = 2
    /\ reads[1].annots_files # reads[2].annots_files
    /\ reads[1].img_pths # reads[2].img_pths
    /\ reads[2].result.err = "none"
    /\ Len(reads[2].result.val[1]) = 2

(***************************************************************************)
(* Frame and index properties of the navigation state.                     *)
(***************************************************************************)
\* C15: next_sample and previous_sample change at most the cursor of the
\* current subset; set_current_subset changes only the current subset
\* name; no call changes the subsets' sample sequences or the held keys.
C15_NavigationFrame ==
    [][/\ dataset_subsets' = dataset_subsets
       /\ (pc = "viewer" => subsets' = subsets)
       /\ (lastOp' \in {"next_sample", "previous_sample"} =>
              /\ current_subset' = current_subset
              /\ DOMAIN current_idx' = DOMAIN current_idx
              /\ \A name \in DOMAIN current_idx :
                     name # current_subset => current_idx'[name] = current_idx[name])
       /\ (lastOp' = "set_current_subset" =>
              /\ current_subset' = lastArg'
              /\ current_idx' = current_idx)]_vars

\* C15 witness: the user has just switched back to train, whose cursor and
\* the cursor of test both kept the non-zero values navigation gave them.
C15_Witness ==
    /\ pc = "viewer"
    /\ lastOp = "set_current_subset"
    /\ current_subset = "train"
    /\ DOMAIN current_idx = {"train", "test"}
    /\ current_idx["train"] = 1
    /\ current_idx["test"] = 2

\* C16: set_index(i) stores i as the cursor of that subset for every
\* integer i, raises nothing and changes nothing else; get_current_index
\* returns the stored cursor.
C16_SetIndexUnchecked ==
    [][/\ (lastOp' = "set_index" =>
              /\ current_idx' = [current_idx EXCEPT ![lastArg'[1]] = lastArg'[2]]
              /\ err' = "none"
              /\ current_subset' = current_subset
              /\ subsets' = subsets
              /\ dataset_subsets' = dataset_subsets
              /\ pc' = pc)
       /\ ((lastOp' = "get_current_index" /\ HasSubset(current_subset)) =>
              /\ ret' = <<[index |-> current_idx[current_subset]]>>
              /\ err' = "none"
              /\ current_idx' = current_idx)]_vars

\* C16 witness: get_current_index has returned a cursor beyond the end of
\* the current subset.
C16_Witness ==
    /\ pc = "viewer"
    /\ lastOp = "get_current_index"
    /\ HasSubset(current_subset)
    /\ ret = <<[index |-> CurIdx]>>
    /\ CurIdx > CurLen

\* C17: the first next_sample or previous_sample call after set_index on
\* the current subset leaves its cursor in [0, n).
C17_OneStepRestores ==
    [][(/\ lastOp = "set_index"
        /\ lastArg[1] = current_subset
        /\ lastOp' \in {"next_sample", "previous_sample"})
          => /\ current_idx'[current_subset] >= 0
             /\ current_idx'[current_subset] < CurLen]_vars

\* C18: right after construction the held subsets are the dataset's
\* non-empty subsets in the dataset's name order, the current subset is
\* the first of them and every cursor is 0.
C18_InitialState ==
    (lastOp = "ViewerDataset" /\ pc = "viewer") =>
        /\ available_subsets =
               (IF dataset_subsets["train"] = <<>> THEN <<"test">>
                ELSE IF dataset_subsets["test"] = <<>> THEN <<"train">>
                ELSE <<"train", "test">>)
        /\ current_subset = available_subsets[1]
        /\ DOMAIN current_idx = Range(available_subsets)
        /\ \A name \in DOMAIN current_idx : current_idx[name] = 0

\* C18 witness: a navigation state has just been constructed over a
\* dataset whose train subset is empty; test is its current subset.
C18_Witness ==
    /\ lastOp = "ViewerDataset"
    /\ pc = "viewer"
    /\ dataset_subsets["train"] = <<>>
    /\ current_subset = "test"

(***************************************************************************)
(* Properties of the viewer window.                                        *)
(***************************************************************************)
\* C13: every annotation of every sample has x1 <= x2 and y1 <= y2, after
\* reading and after any user edit.
C13_BoxesOrdered ==
    \A name \in DOMAIN dataset_subsets :
        \A i \in 1..Len(dataset_subsets[name]) :
            \A j \in 1..Len(dataset_subsets[name][i].annots) :
                LET a == dataset_subsets[name][i].annots[j]
                IN a.x1 <= a.x2 /\ a.y1 <= a.y2

\* the row the user's edit lastArg' = <<r, c, v>> leaves in the table
EditedRow == [table[lastArg'[1] + 1] EXCEPT ![lastArg'[2] + 1] = lastArg'[3]]

\* a cell edit whose row holds integer literals in its four numeric cells
NumericEdit ==
    /\ lastOp' = "table_changed"
    /\ edits' = edits + 1
    /\ \A k \in 1..4 : EditedRow[k].kind = "int"

\* the edit replaced annotation r of the current sample by the annotation
\* of the row's six cells and changed nothing else
ReplacedExactly ==
    /\ lastArg'[1] < Len(CurrentSample.annots)
    /\ dataset_subsets' =
           [dataset_subsets EXCEPT
               ![current_subset][current_idx[current_subset] + 1]
                    .annots[lastArg'[1] + 1] =
                   [x1 |-> EditedRow[1].v, y1 |-> EditedRow[2].v,
                    x2 |-> EditedRow[3].v, y2 |-> EditedRow[4].v,
                    label |-> EditedRow[5], text |-> EditedRow[6]]]
    /\ UNCHANGED viewerVars

\* C19: a user edit of table row r replaces exactly the annotation at index
\* r of the current sample by the annotation of the row's six cells; every
\* other annotation, sample, cursor and the current subset are unchanged.
C19_EditReplacesRow == [][NumericEdit => ReplacedExactly]_vars

\* The part of C19 that does hold: an edit of a row whose index is an index
\* of the current sample's annotation list replaces exactly that annotation.
EditWithinListReplaces ==
    [][(NumericEdit /\ lastArg'[1] < Len(CurrentSample.annots))
           => ReplacedExactly]_vars

\* C20: the table has one row per annotation of the current sample and row
\* r shows annotation r.
C20_TableShowsSample ==
    pc = "viewer" =>
        /\ Len(table) = Len(CurrentSample.annots)
        /\ \A r \in 1..Len(table) :
               LET a == CurrentSample.annots[r]
               IN table[r] = <<I(a.x1), I(a.y1), I(a.x2), I(a.y2), a.label, a.text>>

(***************************************************************************)
(* Properties of the table calls of a slot.                                *)
(***************************************************************************)
\* itemChanged delivered from inside setItem finds the flag raised, and the
\* rows written by the add button or by a reload replace no annotation
PopulationNeverWritesBack ==
    /\ (step = "slot" /\ todo # <<>>) => row_adding
    /\ (step # "idle" /\ lastOp = "add_new_row") => replacements = 0
    /\ (step # "idle" /\ lastOp = "table_changed") =>
           (replacements <= 1 /\ reloads = replacements)

\* the slot of a user's cell edit has returned
EditDone == step = "idle" /\ lastOp = "table_changed"

\* C21: while the table is populated row_adding is true in every
\* itemChanged callback, which therefore modifies no annotation, and each
\* user cell edit makes exactly one annotation replacement and one table
\* reload and ends with row_adding false
C21_OneReplacementPerEdit ==
    /\ PopulationNeverWritesBack
    /\ EditDone => (replacements = 1 /\ reloads = 1 /\ ~row_adding)

\* an edit whose slot raised nothing made one replacement and one reload
EditWithoutErrorOnce ==
    (EditDone /\ err = "none") =>
        (replacements = 1 /\ reloads = 1 /\ ~row_adding /\ todo = <<>>)

\* the edits that make no replacement are those whose slot raised: the
\* text is no integer, or the row was added by the add button
EditFailsOnlyByRaise ==
    (EditDone /\ err # "none") =>
        /\ replacements = 0 /\ reloads = 0 /\ ~row_adding
        /\ \/ err = "ValueError" /\ \E k \in 1..4 : ~IntOk(table[currentRow + 1][k])
           \/ err = "IndexError" /\ currentRow >= Len(CurrentSample.annots)

\* every slot returns: the population does not call itself without bound
SlotTerminates == (step # "idle") ~> (step = "idle" /\ ~row_adding)

====
